---- MODULE Spec2Model ----
(***************************************************************************)
(* Model of tax_cal.py: the progressive / flat tax calculators, the        *)
(* TaxProfile JSON helpers, the profile store and the Calculate / Save As  *)
(* handlers of the form.                                                   *)
(*                                                                         *)
(* Numbers.  Incomes, bounds and rates are integers.  Money amounts that   *)
(* the code obtains as  span * (rate / 100.0)  are kept in hundredths      *)
(* (total_tax holds 100 * the code's total_tax), so no division is needed  *)
(* and no rounding is introduced by the model.                             *)
(*                                                                         *)
(* Floats with special values (None, inf, nan) are tagged records          *)
(* [k, v]: k = "num" carries the value in v, the other tags keep v = 0.    *)
(***************************************************************************)
EXTENDS Integers, Sequences, FiniteSets, TLC

VARIABLES
    brackets,      \* compute_tax_progressive: the `brackets` argument
    taxable,       \* compute_tax_progressive: the `taxable` argument
    ret,           \* outcome of the latest call (NoRet before the first one)
    profile,       \* a TaxProfile p
    serial,        \* p.to_json(), once taken
    restored,      \* outcome of TaxProfile.from_json(p.to_json()), once taken
    file,          \* tax_profiles.json: absent, or the mapping it holds
    profiles,      \* TaxApp.profiles
    app,           \* "off", "running", or "crashed" (the constructor raised)
    loaded,        \* the raw mapping read by the latest load_profiles
    var_income,    \* the form's fields
    var_deductions,
    var_mode,
    var_flat_rate,
    bracket_rows,  \* [up_to_var, rate_var] of every bracket row, in order
    labels,        \* the five result labels
    lastCall       \* what the latest handler did: error shown, calculator called

taxVars == <<brackets, taxable, ret>>
jsonVars == <<profile, serial, restored>>
storeVars == <<file, profiles, app, loaded>>
policyVars == <<var_mode, var_flat_rate, bracket_rows>>
calcVars == <<var_income, var_deductions, labels, lastCall>>

vars == <<taxVars, jsonVars, storeVars, policyVars, calcVars>>

-----------------------------------------------------------------------------
(* Bounds of the explored inputs *)

MaxLen == 3        \* longest bracket list given to compute_tax_progressive
MaxBound == 2      \* largest finite upper bound
MaxIncome == 4     \* largest taxable income

Rates == {5, 10}

-----------------------------------------------------------------------------
(* Optional[float] values *)

Num(n) == [k |-> "num", v |-> n]
Str(x) == [k |-> "str", s |-> x]
NoneV == [k |-> "none", v |-> 0]
InfV == [k |-> "inf", v |-> 0]
NanV == [k |-> "nan", v |-> 0]

Bracket(u, r) == [up_to |-> u, rate |-> r]

\* a < b on floats (False whenever a nan is involved)
FloatLess(a, b) ==
    CASE a.k = "nan" \/ b.k = "nan" -> FALSE
      [] a.k = "inf" -> FALSE
      [] b.k = "inf" -> TRUE
      [] OTHER -> a.v < b.v

\* a - b on floats, b possibly infinite
FloatSub(a, b) ==
    CASE a.k = "nan" \/ b.k = "nan" -> NanV
      [] a.k = "inf" /\ b.k = "inf" -> NanV
      [] a.k = "inf" -> InfV
      [] b.k = "inf" -> [k |-> "ninf", v |-> 0]
      [] OTHER -> Num(a.v - b.v)

\* Python's min(remaining, d): d when d < remaining, else remaining
MinRemaining(remaining, d) ==
    CASE d.k = "ninf" -> d
      [] d.k = "num" /\ d.v < remaining -> d
      [] OTHER -> Num(remaining)

\* Python's max(0.0, x): x when x > 0.0, else 0.0
MaxZero(x) == IF x.k = "num" /\ x.v > 0 THEN x.v ELSE 0

-----------------------------------------------------------------------------
(* compute_tax_progressive *)

\* float("inf") if b.up_to is None else float(b.up_to), float(b.rate)
Clean(b) == Bracket(IF b.up_to.k = "none" THEN InfV ELSE b.up_to, b.rate)

RECURSIVE InsertSorted(_, _)
\* stable insertion of the pair x into the sorted list s: after every pair
\* whose key is not greater
InsertSorted(s, x) ==
    IF s = <<>> THEN <<x>>
    ELSE IF FloatLess(x.key, s[Len(s)].key)
         THEN Append(InsertSorted(SubSeq(s, 1, Len(s) - 1), x), s[Len(s)])
         ELSE Append(s, x)

RECURSIVE SortPairs(_)
SortPairs(s) ==
    IF s = <<>> THEN <<>>
    ELSE InsertSorted(SortPairs(SubSeq(s, 1, Len(s) - 1)), s[Len(s)])

\* the list left in the order given
Unsorted(items, keys) == items

\* sorted(items, key=...) and list.sort(key=...), keys[i] the key of items[i]:
\* ascending and stable
SortedBy(items, keys) ==
    LET sorted == SortPairs([i \in 1..Len(items) |->
                                [item |-> items[i], key |-> keys[i]]])
    IN [i \in 1..Len(items) |-> sorted[i].item]

\* the cleaned list, sorted with key=lambda b: b.up_to
Cleaned(bs) ==
    LET c == [i \in 1..Len(bs) |-> Clean(bs[i])]
    IN SortedBy(c, [i \in 1..Len(c) |-> c[i].up_to])

\* the schedule walked as sorted, no infinite bracket appended
WithoutTail(c) == c

\* the synthetic tail: an infinite bracket with the last bracket's rate
WithTail(c) ==
    IF c[Len(c)].up_to.k # "inf"
    THEN Append(c, Bracket(InfV, c[Len(c)].rate))
    ELSE c

\* span = max(0.0, min(remaining, upper_bound - lower_bound))
Span(remaining, b, lower_bound) ==
    MaxZero(MinRemaining(remaining, FloatSub(b.up_to, lower_bound)))

\* total_tax = span * (b.rate / 100.0), the mistaken form of the accumulation
AccumulateAssign(total_tax, span, rate) == span * rate

\* total_tax += span * (b.rate / 100.0), in hundredths
Accumulate(total_tax, span, rate) == total_tax + span * rate

\* marginal_rate set on every bracket visited, whether or not it took income
MarginalAlways(marginal_rate, span, rate) == rate

\* marginal_rate = b.rate inside `if span > 0`
NextMarginal(marginal_rate, span, rate) ==
    IF span > 0 THEN rate ELSE marginal_rate

RECURSIVE Walk(_, _, _, _, _, _)
\* the for loop, entered at index i with the locals as given
Walk(c, i, remaining, lower_bound, total_tax, marginal_rate) ==
    IF i > Len(c)
    THEN [total_tax |-> total_tax, marginal_rate |-> marginal_rate,
          remaining |-> remaining]
    ELSE LET b == c[i]
             span == Span(remaining, b, lower_bound)
             tax2 == IF span > 0 THEN Accumulate(total_tax, span, b.rate)
                                 ELSE total_tax
             rem2 == IF span > 0 THEN remaining - span ELSE remaining
             mar2 == NextMarginal(marginal_rate, span, b.rate)
         IN IF rem2 <= 0
            THEN [total_tax |-> tax2, marginal_rate |-> mar2, remaining |-> rem2]
            ELSE Walk(c, i + 1, rem2, b.up_to, tax2, mar2)

Raised(what) ==
    [status |-> what, total_tax |-> 0, marginal_rate |-> 0, remaining |-> 0,
     cleaned |-> <<>>]

\* no call made
NoRet == Raised("none")

\* (total_tax, marginal_rate), with the walked schedule and the final value of
\* the local `remaining`; cleaned[-1] on an empty list raises IndexError
compute_tax_progressive(t, bs) ==
    IF Cleaned(bs) = <<>>
    THEN Raised("IndexError")
    ELSE LET c == WithTail(Cleaned(bs))
             w == Walk(c, 1, IF t > 0 THEN t ELSE 0, Num(0), 0, 0)
         IN [status |-> "ok", total_tax |-> w.total_tax,
             marginal_rate |-> w.marginal_rate, remaining |-> w.remaining,
             cleaned |-> c]

-----------------------------------------------------------------------------
(* compute_tax_flat *)

compute_tax_flat(t, rate) ==
    [status |-> "ok", total_tax |-> (IF t > 0 THEN t ELSE 0) * rate,
     marginal_rate |-> rate, remaining |-> 0, cleaned |-> <<>>]

-----------------------------------------------------------------------------
(* Python values, dicts and JSON                                           *)
(*                                                                         *)
(* A dict is a sequence of [key, val] entries in insertion order.  A       *)
(* profile record read from the file is [name, mode, flat_rate, brackets]  *)
(* whose fields may be Absent (the key is missing).  A list is ListV(seq). *)

Absent == [k |-> "absent"]
ListV(items) == [k |-> "list", items |-> items]

Ok(x) == [status |-> "ok", value |-> x]
Raise(what) == [status |-> what, value |-> Absent]

RECURSIVE DictPut(_, _, _)
\* m[key] = val: an existing key keeps its place, a new one goes last
DictPut(m, key, val) ==
    IF m = <<>> THEN <<[key |-> key, val |-> val]>>
    ELSE IF m[1].key = key
         THEN <<[key |-> key, val |-> val]>> \o Tail(m)
         ELSE <<m[1]>> \o DictPut(Tail(m), key, val)

RECURSIVE DictOf(_)
\* the dict built from (key, val) pairs taken in order
DictOf(pairs) ==
    IF pairs = <<>> THEN <<>>
    ELSE LET n == Len(pairs)
         IN DictPut(DictOf(SubSeq(pairs, 1, n - 1)), pairs[n].key, pairs[n].val)

DictKeys(m) == {m[i].key : i \in 1..Len(m)}
DictGet(m, key) == m[CHOOSE i \in 1..Len(m) : m[i].key = key].val

\* d.get(field, default) on a profile or bracket record
GetOr(x, default) == IF x = Absent THEN default ELSE x

\* float(x): numbers convert; None raises TypeError, text that is no number
\* raises ValueError (every Str of the model is non-numeric text)
FloatOf(x) ==
    CASE x.k \in {"num", "inf", "nan"} -> Ok(x)
      [] x.k = "str" -> Raise("ValueError")
      [] OTHER -> Raise("TypeError")

\* asdict(b)
BracketToJson(b) == [up_to |-> b.up_to, rate |-> Num(b.rate)]

\* self.brackets or []
BracketsOrEmpty(bs) == IF bs.k = "list" THEN bs.items ELSE <<>>

\* [asdict(b) for b in (self.brackets or [])]
BracketsToJson(bs) ==
    LET items == BracketsOrEmpty(bs)
    IN ListV([i \in 1..Len(items) |-> BracketToJson(items[i])])

TaxProfile(name, mode, flat_rate, bs) ==
    [name |-> name, mode |-> mode, flat_rate |-> flat_rate, brackets |-> bs]

to_json(p) ==
    [name |-> p.name, mode |-> p.mode, flat_rate |-> p.flat_rate,
     brackets |-> BracketsToJson(p.brackets)]

\* Bracket(b.get("up_to"), float(b.get("rate", 0)))
BracketFromJson(b) ==
    LET rate == FloatOf(GetOr(b.rate, Num(0)))
    IN IF rate.status = "ok"
       THEN Ok(Bracket(GetOr(b.up_to, NoneV), rate.value.v))
       ELSE rate

RECURSIVE BracketsFromItems(_)
\* the list comprehension over the items: the first failing one raises
BracketsFromItems(items) ==
    IF items = <<>> THEN Ok(<<>>)
    ELSE LET b == BracketFromJson(items[1])
             rest == BracketsFromItems(Tail(items))
         IN IF b.status # "ok" THEN b
            ELSE IF rest.status # "ok" THEN rest
            ELSE Ok(<<b.value>> \o rest.value)

\* [... for b in d.get("brackets", [])]: iterating None raises TypeError
BracketsFromJson(x) ==
    LET bs == GetOr(x, ListV(<<>>))
    IN IF bs.k = "list"
       THEN LET r == BracketsFromItems(bs.items)
            IN IF r.status = "ok" THEN Ok(ListV(r.value)) ELSE r
       ELSE Raise("TypeError")

from_json(d) ==
    LET flat_rate == FloatOf(GetOr(d.flat_rate, Num(10)))
        bs == BracketsFromJson(d.brackets)
    IN IF flat_rate.status # "ok" THEN flat_rate
       ELSE IF bs.status # "ok" THEN bs
       ELSE Ok(TaxProfile(GetOr(d.name, Str("Unnamed")), GetOr(d.mode, Str("flat")),
                          flat_rate.value, bs.value))

-----------------------------------------------------------------------------
(* The profile store *)

NoFile == [k |-> "absent"]
FileOf(data) == [k |-> "file", data |-> data]

\* json.dump writes a None key as "null"; text keys are written as they are
JsonKey(key) == IF key.k = "none" THEN Str("null") ELSE key

\* json.load(json.dump(m)): the keys become text, a repeated key keeps its
\* last value
DumpLoad(m) ==
    DictOf([i \in 1..Len(m) |-> [key |-> JsonKey(m[i].key), val |-> m[i].val]])

DictMap(m, F(_)) == [i \in 1..Len(m) |-> [key |-> m[i].key, val |-> F(m[i].val)]]

\* the two illustrative profiles of the first run
DefaultProfiles ==
    <<[key |-> Str("Flat 10%"),
       val |-> to_json(TaxProfile(Str("Flat 10%"), Str("flat"), Num(10), ListV(<<>>)))],
      [key |-> Str("Sample Progressive"),
       val |-> to_json(TaxProfile(Str("Sample Progressive"), Str("progressive"),
                 Num(10),
                 ListV(<<Bracket(Num(10000), 5), Bracket(Num(30000), 10),
                         Bracket(Num(80000), 20), Bracket(NoneV, 30)>>)))]>>

\* the mapping of the converted records r, or the exception of the first
\* record that failed
FirstFailureOr(raw, r) ==
    LET bad == {i \in 1..Len(raw) : r[i].status # "ok"}
    IN IF bad = {}
       THEN Ok([i \in 1..Len(raw) |-> [key |-> raw[i].key, val |-> r[i].value]])
       ELSE Raise(r[CHOOSE i \in bad : \A j \in bad : i <= j].status)

\* {name: TaxProfile.from_json(p) for name, p in raw.items()}: the first
\* record that fails raises out of the comprehension
FromJsonAll(raw) ==
    FirstFailureOr(raw, [i \in 1..Len(raw) |-> from_json(raw[i].val)])

\* the mapping returned as it was read, keyed by the file's own keys
KeepKeys(m) == m

\* {v.name: v for v in profiles.values()}
RekeyByName(m) ==
    DictOf([i \in 1..Len(m) |-> [key |-> m[i].val.name, val |-> m[i].val]])

\* first run: the defaults are written and returned under their own keys
LoadSeeded(r) ==
    [status |-> r.status, value |-> r.value,
     file |-> FileOf(DumpLoad(DefaultProfiles)), raw |-> DefaultProfiles]

\* later runs: the records read, re-keyed; r is the outcome of converting them
LoadExisting(f, r) ==
    [status |-> r.status,
     value |-> IF r.status = "ok" THEN RekeyByName(r.value) ELSE r.value,
     file |-> f, raw |-> f.data]

\* load_profiles(): the mapping returned (or the exception) and the file left
load_profiles(f) ==
    IF f = NoFile
    THEN LoadSeeded(FromJsonAll(DefaultProfiles))
    ELSE LoadExisting(f, FromJsonAll(f.data))

\* save_profiles(profiles): the file written
save_profiles(m) == FileOf(DumpLoad(DictMap(m, to_json)))

-----------------------------------------------------------------------------
(* The form                                                                *)
(*                                                                         *)
(* The text of a field is Num(n) when it reads as the number n and Str(x)  *)
(* when it is the text x that float() rejects (the empty text included).   *)
(* A bracket row is [up_to_var, rate_var].  The currency symbol only       *)
(* prefixes three of the labels and is left out.                           *)

Row(up, rate) == [up_to_var |-> up, rate_var |-> rate]

\* _collect_numbers: (income, deductions) or the ValueError
collect_numbers(income_s, deductions_s) ==
    LET income == FloatOf(income_s)
        deductions == FloatOf(deductions_s)
    IN IF \/ income.status # "ok"
          \/ deductions.status # "ok"
          \/ income.value.v < 0
          \/ deductions.value.v < 0
       THEN Raise("Income and deductions must be non-negative numbers.")
       ELSE Ok([income |-> income.value.v, deductions |-> deductions.value.v])

\* the body of the loop of _collect_brackets for one row
CollectRow(r) ==
    IF r.rate_var = Str("") THEN Raise("Each bracket must have a rate.")
    ELSE IF FloatOf(r.rate_var).status # "ok" THEN Raise("Rates must be numbers.")
    ELSE IF r.up_to_var = Str("") THEN Ok(Bracket(NoneV, r.rate_var.v))
    ELSE IF FloatOf(r.up_to_var).status # "ok"
         THEN Raise("'Up To' values must be numbers or left blank for infinity.")
    ELSE Ok(Bracket(r.up_to_var, r.rate_var.v))

\* the duplicate check left out
NoDuplicateCheck(rows) == FALSE

\* len(set(finite_bounds)) != len(finite_bounds)
HasDuplicateBounds(rows) ==
    LET finite == {i \in 1..Len(rows) : rows[i].up_to.k # "none"}
    IN Cardinality({rows[i].up_to : i \in finite}) # Cardinality(finite)

\* key=lambda b: float("inf") if b.up_to is None else b.up_to
RowKey(b) == IF b.up_to.k = "none" THEN InfV ELSE b.up_to

\* _collect_brackets: the sorted list of Bracket or the ValueError
collect_brackets(rws) ==
    LET r == [i \in 1..Len(rws) |-> CollectRow(rws[i])]
        bad == {i \in 1..Len(rws) : r[i].status # "ok"}
        rows == [i \in 1..Len(rws) |-> r[i].value]
    IN IF bad # {}
       THEN Raise(r[CHOOSE i \in bad : \A j \in bad : i <= j].status)
       ELSE IF HasDuplicateBounds(rows)
       THEN Raise("Duplicate 'Up To' values found.")
       ELSE Ok(SortedBy(rows, [i \in 1..Len(rows) |-> RowKey(rows[i])]))

\* _collect_profile(name)
collect_profile(name, mode, flat_s, rws) ==
    IF mode = Str("flat")
    THEN LET rate == FloatOf(flat_s)
         IN IF rate.status # "ok" THEN Raise("Flat rate must be a number.")
            ELSE Ok(TaxProfile(name, mode, rate.value, ListV(<<>>)))
    ELSE LET bs == collect_brackets(rws)
         IN IF bs.status # "ok" THEN bs
            ELSE Ok(TaxProfile(name, mode, Num(10), ListV(bs.value)))

\* add_bracket_row(up_to, rate): the texts put in the new row
NewRow(up_to, rate) ==
    Row(IF up_to.k \in {"none", "inf"} THEN Str("") ELSE up_to, Num(rate))

\* _load_profile_by_name: the mode, flat rate and rows the form takes
FormOfProfile(prof) ==
    LET bs == BracketsOrEmpty(prof.brackets)
    IN [var_mode |-> prof.mode,
        var_flat_rate |-> prof.flat_rate,
        bracket_rows |-> [i \in 1..Len(bs) |->
            NewRow(IF bs[i].up_to.k = "inf" THEN NoneV ELSE bs[i].up_to, bs[i].rate)]]

\* a / b rounded to the nearest integer, ties to even (a >= 0, b > 0)
RoundDiv(a, b) ==
    LET q == a \div b
        r == a % b
    IN IF 2 * r < b THEN q
       ELSE IF 2 * r > b THEN q + 1
       ELSE IF q % 2 = 0 THEN q ELSE q + 1

Dash == Str("-")
NoLabels ==
    [taxable |-> Dash, tax |-> Dash, net |-> Dash, effective |-> Dash,
     marginal |-> Dash]

\* the five labels as configured at the end of on_calculate, each the number
\* shown with two decimals, in hundredths
LabelsOf(income, t, tax, marginal) ==
    [taxable |-> Num(100 * t),
     tax |-> Num(tax),
     net |-> Num(100 * income - tax),
     effective |-> Num(IF income > 0 THEN RoundDiv(100 * tax, income) ELSE 0),
     marginal |-> Num(100 * marginal)]

NoCall == [error |-> "", fn |-> "none", result |-> NoRet]
Rejected(message) == [error |-> message, fn |-> "none", result |-> NoRet]
Called(fn, result) == [error |-> "", fn |-> fn, result |-> result]

\* the end of on_calculate: r is what the calculator gave.  An exception out
\* of the calculator leaves the handler before any label is configured.
ShowResult(income, t, fn, r, old) ==
    [labels |-> IF r.status = "ok"
                THEN LabelsOf(income, t, r.total_tax, r.marginal_rate)
                ELSE old,
     call |-> Called(fn, r)]

\* the flat branch, rate the outcome of float(self.var_flat_rate.get())
FlatBranch(income, t, rate, old) ==
    IF rate.status # "ok"
    THEN [labels |-> old, call |-> Rejected("Flat rate must be a number.")]
    ELSE ShowResult(income, t, "flat", compute_tax_flat(t, rate.value.v), old)

\* the progressive branch, bs the outcome of _collect_brackets()
ProgressiveBranch(income, t, bs, old) ==
    IF bs.status # "ok"
    THEN [labels |-> old, call |-> Rejected(bs.status)]
    ELSE ShowResult(income, t, "progressive",
                    compute_tax_progressive(t, bs.value), old)

\* on_calculate from `taxable = max(0.0, income - deductions)` on
Dispatch(income, t, mode, flat_s, rws, old) ==
    IF mode = Str("flat")
    THEN FlatBranch(income, t, FloatOf(flat_s), old)
    ELSE ProgressiveBranch(income, t, collect_brackets(rws), old)

\* on_calculate once _collect_numbers() gave nums
AfterNumbers(nums, mode, flat_s, rws, old) ==
    IF nums.status # "ok"
    THEN [labels |-> old, call |-> Rejected(nums.status)]
    ELSE Dispatch(nums.value.income,
                  IF nums.value.income - nums.value.deductions > 0
                  THEN nums.value.income - nums.value.deductions ELSE 0,
                  mode, flat_s, rws, old)

\* on_calculate: the labels left and what the handler did
on_calculate(income_s, deductions_s, mode, flat_s, rws, old) ==
    AfterNumbers(collect_numbers(income_s, deductions_s), mode, flat_s, rws, old)

-----------------------------------------------------------------------------
(* Values the parts of the state take while they are not exercised *)

TaxIdle == brackets = <<>> /\ taxable = 0 /\ ret = NoRet
JsonIdle == profile = Absent /\ serial = Absent /\ restored = Absent
NoLoad == [status |-> "none", value |-> Absent, file |-> NoFile, raw |-> <<>>]
StoreIdle == file = NoFile /\ profiles = <<>> /\ app = "off" /\ loaded = NoLoad

\* the values given to the StringVars in TaxApp.__init__
InitialPolicy ==
    [var_mode |-> Str("flat"), var_flat_rate |-> Num(10), bracket_rows |-> <<>>]
PolicyIdle ==
    /\ var_mode = InitialPolicy.var_mode
    /\ var_flat_rate = InitialPolicy.var_flat_rate
    /\ bracket_rows = InitialPolicy.bracket_rows
CalcIdle ==
    /\ var_income = Num(60000)
    /\ var_deductions = Num(0)
    /\ labels = NoLabels
    /\ lastCall = NoCall

-----------------------------------------------------------------------------
(* Spec: the calculator called on arbitrary schedules *)

UpTos == {Num(n) : n \in 0..MaxBound} \cup {NoneV}
BracketValues == {Bracket(u, r) : u \in UpTos, r \in Rates}
BracketLists == UNION {[1..n -> BracketValues] : n \in 0..MaxLen}
Incomes == (0 - 1)..MaxIncome

Init ==
    /\ brackets \in BracketLists
    /\ taxable \in Incomes
    /\ ret = NoRet
    /\ JsonIdle /\ StoreIdle /\ PolicyIdle /\ CalcIdle

\* a call of compute_tax_progressive(taxable, brackets)
Compute ==
    /\ ret = NoRet
    /\ ret' = compute_tax_progressive(taxable, brackets)
    /\ UNCHANGED <<brackets, taxable, jsonVars, storeVars, policyVars, calcVars>>

\* a further call on the same schedule with another taxable income
Recompute(t) ==
    /\ ret # NoRet
    /\ taxable' = t
    /\ ret' = compute_tax_progressive(t, brackets)
    /\ UNCHANGED <<brackets, jsonVars, storeVars, policyVars, calcVars>>

Next ==
    \/ Compute
    \/ \E t \in Incomes : Recompute(t)

Spec == Init /\ [][Next]_vars

-----------------------------------------------------------------------------
(* JsonSpec: a TaxProfile serialized and deserialized *)

ProfileNames == {Str("A"), Str("B")}
Modes == {Str("flat"), Str("progressive")}

\* the values TaxProfile(...) can be constructed with; brackets left at its
\* default is None
TaxProfileValues ==
    {TaxProfile(n, m, Num(f), bs) :
        n \in ProfileNames, m \in Modes, f \in {10, 25},
        bs \in {NoneV} \cup {ListV(l) : l \in BracketLists}}

JsonInit ==
    /\ profile \in TaxProfileValues
    /\ serial = Absent
    /\ restored = Absent
    /\ TaxIdle /\ StoreIdle /\ PolicyIdle /\ CalcIdle

\* p.to_json()
ToJson ==
    /\ serial = Absent
    /\ serial' = to_json(profile)
    /\ UNCHANGED <<profile, restored, taxVars, storeVars, policyVars, calcVars>>

\* TaxProfile.from_json(...) of the serialized profile
FromJson ==
    /\ serial # Absent
    /\ restored = Absent
    /\ restored' = from_json(serial)
    /\ UNCHANGED <<profile, serial, taxVars, storeVars, policyVars, calcVars>>

JsonNext == ToJson \/ FromJson

JsonSpec == JsonInit /\ [][JsonNext]_vars

-----------------------------------------------------------------------------
(* Handlers of the application, shared by StoreSpec and CalcSpec *)

FlatRateTexts == {Str("abc"), Num(10)}

\* the rest of TaxApp.__init__ once load_profiles() gave r: the form is
\* filled by _load_profile_by_name("Flat 10%"); an exception out of
\* load_profiles ends the construction
ConstructedWith(r) ==
    [loaded |-> r,
     file |-> r.file,
     app |-> IF r.status = "ok" THEN "running" ELSE "crashed",
     profiles |-> IF r.status = "ok" THEN r.value ELSE <<>>,
     form |-> IF r.status = "ok" /\ Str("Flat 10%") \in DictKeys(r.value)
              THEN FormOfProfile(DictGet(r.value, Str("Flat 10%")))
              ELSE InitialPolicy]

\* the state TaxApp.__init__ leaves
StartWith(c) ==
    /\ loaded' = c.loaded
    /\ file' = c.file
    /\ app' = c.app
    /\ profiles' = c.profiles
    /\ var_mode' = c.form.var_mode
    /\ var_flat_rate' = c.form.var_flat_rate
    /\ bracket_rows' = c.form.bracket_rows
    /\ var_income' = Num(60000)
    /\ var_deductions' = Num(0)
    /\ labels' = NoLabels
    /\ lastCall' = NoCall

\* the application is started
Start ==
    /\ app = "off"
    /\ StartWith(ConstructedWith(load_profiles(file)))
    /\ UNCHANGED <<taxVars, jsonVars>>

\* the window is closed, or the failed process has ended
Quit ==
    /\ app # "off"
    /\ app' = "off"
    /\ profiles' = <<>>
    /\ loaded' = NoLoad
    /\ var_mode' = InitialPolicy.var_mode
    /\ var_flat_rate' = InitialPolicy.var_flat_rate
    /\ bracket_rows' = InitialPolicy.bracket_rows
    /\ var_income' = Num(60000)
    /\ var_deductions' = Num(0)
    /\ labels' = NoLabels
    /\ lastCall' = NoCall
    /\ UNCHANGED <<file, taxVars, jsonVars>>

\* the user picks Flat or Progressive
SetMode(m) ==
    /\ app = "running"
    /\ var_mode' = m
    /\ lastCall' = NoCall
    /\ UNCHANGED <<var_flat_rate, bracket_rows, var_income, var_deductions,
                   labels, taxVars, jsonVars, storeVars>>

\* the user types a flat rate
SetFlatRate(x) ==
    /\ app = "running"
    /\ var_flat_rate' = x
    /\ lastCall' = NoCall
    /\ UNCHANGED <<var_mode, bracket_rows, var_income, var_deductions,
                   labels, taxVars, jsonVars, storeVars>>

\* the mode, flat rate and rows of `form` put in the form
SetPolicy(form) ==
    /\ var_mode' = form.var_mode
    /\ var_flat_rate' = form.var_flat_rate
    /\ bracket_rows' = form.bracket_rows

\* on_load_profile with `name` selected in the combobox
OnLoadProfile(name) ==
    /\ app = "running"
    /\ name \in DictKeys(profiles)
    /\ SetPolicy(FormOfProfile(DictGet(profiles, name)))
    /\ lastCall' = NoCall
    /\ UNCHANGED <<var_income, var_deductions, labels, taxVars, jsonVars,
                   storeVars>>

\* the end of on_save_profile: prof is the outcome of _collect_profile(name)
SaveCollected(name, prof, old, f) ==
    IF prof.status # "ok"
    THEN [profiles |-> old, file |-> f, call |-> Rejected(prof.status)]
    ELSE [profiles |-> DictPut(old, name, prof.value),
          file |-> save_profiles(DictPut(old, name, prof.value)),
          call |-> NoCall]

\* on_save_profile: the mapping and the file left, and the error shown; `name`
\* is the answer to the dialog (None when cancelled)
on_save_profile(name, mode, flat_s, rws, old, f) ==
    IF name \in {NoneV, Str("")}
    THEN [profiles |-> old, file |-> f, call |-> NoCall]
    ELSE SaveCollected(name, collect_profile(name, mode, flat_s, rws), old, f)

\* the state on_save_profile leaves
SaveWith(r) ==
    /\ profiles' = r.profiles
    /\ file' = r.file
    /\ lastCall' = r.call

OnSaveProfile(name) ==
    /\ app = "running"
    /\ SaveWith(on_save_profile(name, var_mode, var_flat_rate, bracket_rows,
                                 profiles, file))
    /\ UNCHANGED <<app, loaded, policyVars, var_income, var_deductions, labels,
                   taxVars, jsonVars>>

-----------------------------------------------------------------------------
(* StoreSpec: the profile file across runs, hand edits and Save As *)

FileKeys == {Str("A"), Str("B")}

GoodFlat ==
    [name |-> Str("A"), mode |-> Str("flat"), flat_rate |-> Num(10),
     brackets |-> ListV(<<>>)]
GoodProgressive ==
    [name |-> Str("B"), mode |-> Str("progressive"), flat_rate |-> Num(10),
     brackets |-> ListV(<<[up_to |-> NoneV, rate |-> Num(5)]>>)]

\* records as a hand edit can leave them: one field missing or malformed
FileRecords ==
    {GoodFlat, GoodProgressive}
    \cup {[GoodFlat EXCEPT !.name = x] : x \in {Absent, NoneV}}
    \cup {[GoodFlat EXCEPT !.mode = x] : x \in {Absent, Str("bogus")}}
    \cup {[GoodFlat EXCEPT !.flat_rate = x] : x \in {Absent, NoneV, Str("abc")}}
    \cup {[GoodFlat EXCEPT !.brackets = x] :
            x \in {Absent, NoneV,
                   ListV(<<[up_to |-> Num(1), rate |-> Str("abc")]>>)}}

FileEntries == {[key |-> k, val |-> r] : k \in FileKeys, r \in FileRecords}

HandEditedFiles ==
    {NoFile, FileOf(<<>>)}
    \cup {FileOf(<<e>>) : e \in FileEntries}
    \cup {FileOf(<<ef[1], ef[2]>>) :
            ef \in {x \in FileEntries \X FileEntries : x[1].key # x[2].key}}

SaveNames == {NoneV, Str(""), Str("A"), Str("C")}

StoreInit == TaxIdle /\ JsonIdle /\ StoreIdle /\ PolicyIdle /\ CalcIdle

\* the file is edited by hand, or removed, while the application is closed
HandEdit(f) ==
    /\ app = "off"
    /\ file' = f
    /\ UNCHANGED <<profiles, app, loaded, policyVars, calcVars, taxVars, jsonVars>>

StoreNext ==
    \/ \E f \in HandEditedFiles : HandEdit(f)
    \/ Start
    \/ Quit
    \/ \E m \in Modes : SetMode(m)
    \/ \E x \in FlatRateTexts : SetFlatRate(x)
    \/ \E name \in DictKeys(profiles) : OnLoadProfile(name)
    \/ \E name \in SaveNames : OnSaveProfile(name)

StoreSpec == StoreInit /\ [][StoreNext]_vars

-----------------------------------------------------------------------------
(* CalcSpec: the form edited and Calculate pressed, after a first run *)

MaxRows == 2       \* most bracket rows in the form

IncomeTexts == {Str("abc"), Num(0 - 1), Num(60000)}
DeductionTexts == {Str("abc"), Num(0 - 1), Num(0)}

\* what the user leaves in a row: the new row as Add Bracket makes it, rows
\* that validate, and rows with an empty rate, a rate or a bound that is no
\* number
RowValues ==
    {Row(Str(""), Num(0)), Row(Str(""), Num(10)), Row(Num(1), Num(5)),
     Row(Num(2), Num(10)),
     Row(Num(1), Str("")), Row(Num(1), Str("abc")), Row(Str("abc"), Num(5))}

\* the state TaxApp.__init__ leaves on a first run
Seeded == ConstructedWith(load_profiles(NoFile))

CalcInit ==
    /\ loaded = Seeded.loaded
    /\ file = Seeded.file
    /\ app = Seeded.app
    /\ profiles = Seeded.profiles
    /\ var_mode = Seeded.form.var_mode
    /\ var_flat_rate = Seeded.form.var_flat_rate
    /\ bracket_rows = Seeded.form.bracket_rows
    /\ TaxIdle /\ JsonIdle /\ CalcIdle

SetIncome(x) ==
    /\ app = "running"
    /\ var_income' = x
    /\ lastCall' = NoCall
    /\ UNCHANGED <<var_deductions, labels, policyVars, taxVars, jsonVars, storeVars>>

SetDeductions(x) ==
    /\ app = "running"
    /\ var_deductions' = x
    /\ lastCall' = NoCall
    /\ UNCHANGED <<var_income, labels, policyVars, taxVars, jsonVars, storeVars>>

\* the Add Bracket button: add_bracket_row()
AddBracketRow ==
    /\ app = "running"
    /\ Len(bracket_rows) < MaxRows
    /\ bracket_rows' = Append(bracket_rows, NewRow(NoneV, 0))
    /\ lastCall' = NoCall
    /\ UNCHANGED <<var_mode, var_flat_rate, var_income, var_deductions, labels,
                   taxVars, jsonVars, storeVars>>

\* the user edits the two entries of row i
SetRow(i, r) ==
    /\ app = "running"
    /\ i \in 1..Len(bracket_rows)
    /\ bracket_rows' = [bracket_rows EXCEPT ![i] = r]
    /\ lastCall' = NoCall
    /\ UNCHANGED <<var_mode, var_flat_rate, var_income, var_deductions, labels,
                   taxVars, jsonVars, storeVars>>

\* remove_row of row i
RemoveRow(i) ==
    /\ app = "running"
    /\ i \in 1..Len(bracket_rows)
    /\ bracket_rows' = SubSeq(bracket_rows, 1, i - 1)
                         \o SubSeq(bracket_rows, i + 1, Len(bracket_rows))
    /\ lastCall' = NoCall
    /\ UNCHANGED <<var_mode, var_flat_rate, var_income, var_deductions, labels,
                   taxVars, jsonVars, storeVars>>

\* the state on_calculate leaves
CalculateWith(r) ==
    /\ labels' = r.labels
    /\ lastCall' = r.call

OnCalculate ==
    /\ app = "running"
    /\ CalculateWith(on_calculate(var_income, var_deductions, var_mode,
                                   var_flat_rate, bracket_rows, labels))
    /\ UNCHANGED <<var_income, var_deductions, policyVars, taxVars, jsonVars,
                   storeVars>>

\* on_reset: the labels are left as they are
OnReset ==
    /\ app = "running"
    /\ var_income' = Num(60000)
    /\ var_deductions' = Num(0)
    /\ var_mode' = Str("flat")
    /\ var_flat_rate' = Num(10)
    /\ bracket_rows' = <<>>
    /\ lastCall' = NoCall
    /\ UNCHANGED <<labels, taxVars, jsonVars, storeVars>>

CalcNext ==
    \/ \E x \in IncomeTexts : SetIncome(x)
    \/ \E x \in DeductionTexts : SetDeductions(x)
    \/ \E m \in Modes : SetMode(m)
    \/ \E x \in FlatRateTexts : SetFlatRate(x)
    \/ AddBracketRow
    \/ \E i \in 1..MaxRows, r \in RowValues : SetRow(i, r)
    \/ \E i \in 1..MaxRows : RemoveRow(i)
    \/ OnCalculate
    \/ OnReset

CalcSpec == CalcInit /\ [][CalcNext]_vars

-----------------------------------------------------------------------------
(* Properties of compute_tax_progressive, checked under Spec *)

Returned == ret.status = "ok"

RECURSIVE SumOver(_, _)
\* the sum of f[x] over the finite set S
SumOver(S, f) ==
    IF S = {} THEN 0
    ELSE LET x == CHOOSE y \in S : TRUE IN f[x] + SumOver(S \ {x}, f)

FiniteBounds(bs) == {bs[i].up_to.v : i \in {j \in 1..Len(bs) : bs[j].up_to.k = "num"}}

UniqueFinite(bs) ==
    \A i, j \in 1..Len(bs) :
        (i # j /\ bs[i].up_to.k = "num" /\ bs[j].up_to.k = "num")
            => bs[i].up_to.v # bs[j].up_to.v

\* B_(i-1) for the bound B_i = b: the next lower finite bound, 0 below the first
BoundBelow(bs, b) ==
    LET lower == {x \in FiniteBounds(bs) : x < b}
    IN IF lower = {} THEN 0 ELSE CHOOSE x \in lower : \A y \in lower : y <= x

\* the rate of the bracket of bs whose bound is b (bounds unique)
RateOf(bs, b) ==
    bs[CHOOSE i \in 1..Len(bs) : bs[i].up_to = Num(b)].rate

\* sum over the brackets up to bound b of (B_i - B_(i-1)) * rate_i, in hundredths
SpanTaxUpTo(bs, b) ==
    LET S == {x \in FiniteBounds(bs) : x <= b}
    IN SumOver(S, [x \in S |-> (x - BoundBelow(bs, x)) * RateOf(bs, x)])

\* C1: for a schedule with unique finite bounds, given in any order, the tax
\* returned for a taxable income equal to a finite bound B_k is the sum over
\* the brackets i <= k of the ascending schedule of (B_i - B_(i-1)) * rate_i / 100
\* with B_0 = 0: nothing is skipped or taxed twice at a boundary.
C1_ContinuityAtBoundaries ==
    (/\ Returned
     /\ UniqueFinite(brackets)
     /\ taxable \in FiniteBounds(brackets))
        => ret.total_tax = SpanTaxUpTo(brackets, taxable)

\* three brackets given in descending order, income at the highest bound
C1_Witness ==
    /\ Returned
    /\ brackets = <<Bracket(NoneV, 5), Bracket(Num(2), 10), Bracket(Num(1), 5)>>
    /\ taxable = 2
    /\ ret.total_tax = 15

\* C2: with an empty bracket list the call returns total tax 0 and marginal
\* rate 0 for every taxable income.
C2_EmptyListGivesZero ==
    (brackets = <<>> /\ ret # NoRet)
        => (Returned /\ ret.total_tax = 0 /\ ret.marginal_rate = 0)

NoUnbounded(bs) == \A i \in 1..Len(bs) : bs[i].up_to.k = "num"

MaxOf(S) == CHOOSE x \in S : \A y \in S : y <= x

\* the rate of the bracket whose bound is b; when several brackets share the
\* bound, the one given last
LastRateOf(bs, b) ==
    bs[MaxOf({i \in 1..Len(bs) : bs[i].up_to = Num(b)})].rate

\* C3: for a non-empty list without an unbounded entry and a taxable income T
\* above the largest bound Bmax, the walk ends with remaining = 0 and the tax
\* is the tax at Bmax plus (T - Bmax) * r / 100, r the rate of the bracket
\* whose bound is Bmax.
C3_TerminalBracket ==
    (/\ Returned
     /\ brackets # <<>>
     /\ NoUnbounded(brackets)
     /\ taxable > MaxOf(FiniteBounds(brackets)))
        => LET Bmax == MaxOf(FiniteBounds(brackets))
           IN /\ ret.remaining = 0
              /\ ret.total_tax =
                    compute_tax_progressive(Bmax, brackets).total_tax
                    + (taxable - Bmax) * LastRateOf(brackets, Bmax)

\* income two units above the largest bound of an unsorted finite schedule
C3_Witness ==
    /\ Returned
    /\ brackets = <<Bracket(Num(2), 10), Bracket(Num(1), 5)>>
    /\ taxable = 4
    /\ ret.remaining = 0
    /\ ret.total_tax = 35

\* T <= B on floats, B possibly infinite
AtMost(t, b) == b.k = "inf" \/ (b.k = "num" /\ t <= b.v)

\* the k with B_(k-1) < T <= B_k in the schedule walked
BracketOf(t, c) ==
    CHOOSE k \in 1..Len(c) :
        /\ AtMost(t, c[k].up_to)
        /\ \A j \in 1..(k - 1) : ~AtMost(t, c[j].up_to)

\* C4: the marginal rate returned is the rate of the bracket k of the
\* ascending schedule with B_(k-1) < T <= B_k (the highest bracket that took
\* a positive span, not the topmost one), and 0 when T <= 0.
C4_MarginalRate ==
    Returned =>
        IF taxable <= 0
        THEN ret.marginal_rate = 0
        ELSE ret.marginal_rate = ret.cleaned[BracketOf(taxable, ret.cleaned)].rate

\* income exhausted in the second of three brackets, whose rate differs from
\* the top bracket's
C4_Witness ==
    /\ Returned
    /\ brackets = <<Bracket(NoneV, 10), Bracket(Num(2), 5), Bracket(Num(1), 10)>>
    /\ taxable = 2
    /\ ret.marginal_rate = 5

\* C5: for a fixed bracket list (rates non-negative) and taxable incomes
\* T1 <= T2, the total tax returned for T1 is at most the one returned for T2.
C5_Monotonic ==
    [][(Returned /\ ret'.status = "ok")
          => /\ (taxable <= taxable' => ret.total_tax <= ret'.total_tax)
             /\ (taxable' <= taxable => ret'.total_tax <= ret.total_tax)]_vars

\* a call whose income crossed from the first bracket into the second
C5_Witness ==
    /\ Returned
    /\ brackets = <<Bracket(Num(1), 10), Bracket(Num(2), 5)>>
    /\ taxable = 2
    /\ ret.total_tax = 15

-----------------------------------------------------------------------------
(* Properties of the JSON helpers, checked under JsonSpec *)

\* C6: for every TaxProfile p, TaxProfile.from_json(p.to_json()) equals p (name,
\* mode, flat_rate and brackets in order), also when brackets was left at its
\* default and when a bracket's up_to is the unbounded sentinel.
C6_RoundTrip ==
    restored # Absent => (restored.status = "ok" /\ restored.value = profile)

-----------------------------------------------------------------------------
(* Properties of the profile store, checked under StoreSpec *)

\* C7: in every state reached by loads (first run or later runs) and Save As,
\* every key of the in-memory mapping equals the name of the profile it maps
\* to; a file whose keys differ from the records' names is loaded keyed by name.
C7_KeyEqualsName ==
    \A i \in 1..Len(profiles) : profiles[i].key = profiles[i].val.name

\* a file holding the record named "A" under the key "B" was loaded, and a
\* profile was then saved as "C"
C7_Witness ==
    /\ app = "running"
    /\ loaded.raw = <<[key |-> Str("B"), val |-> GoodFlat]>>
    /\ DictKeys(profiles) = {Str("A"), Str("C")}

\* the documented reading of a field: its default when missing or malformed
NameOrDefault(x) == IF x.k = "str" THEN x ELSE Str("Unnamed")
ModeOrDefault(x) == IF x \in Modes THEN x ELSE Str("flat")
FlatRateOrDefault(x) == IF x.k = "num" THEN x ELSE Num(10)
BracketOrDefault(b) ==
    Bracket(IF b.up_to.k = "num" THEN b.up_to ELSE NoneV,
            IF b.rate.k = "num" THEN b.rate.v ELSE 0)
BracketsOrDefault(x) ==
    IF x.k = "list"
    THEN ListV([i \in 1..Len(x.items) |-> BracketOrDefault(x.items[i])])
    ELSE ListV(<<>>)
RecordOrDefaults(d) ==
    TaxProfile(NameOrDefault(d.name), ModeOrDefault(d.mode),
               FlatRateOrDefault(d.flat_rate), BracketsOrDefault(d.brackets))

\* C8: a load of an existing store never fails because of a bad record: a
\* field that is missing or malformed takes its documented default (mode
\* "flat", flat_rate 10.0, brackets empty, name "Unnamed") and every record is
\* loaded.
C8_LoadSubstitutesDefaults ==
    loaded # NoLoad =>
        /\ loaded.status = "ok"
        /\ \A i \in 1..Len(loaded.raw) :
              \E j \in 1..Len(loaded.value) :
                  loaded.value[j].val.name = NameOrDefault(loaded.raw[i].val.name)
        /\ \A j \in 1..Len(loaded.value) :
              \E i \in 1..Len(loaded.raw) :
                  loaded.value[j].val = RecordOrDefaults(loaded.raw[i].val)

-----------------------------------------------------------------------------
(* Properties of Calculate, checked under CalcSpec *)

IsNumber(x) == x.k = "num"

ValidNumbers ==
    /\ IsNumber(var_income) /\ IsNumber(var_deductions)
    /\ var_income.v >= 0 /\ var_deductions.v >= 0

ValidRow(r) ==
    /\ IsNumber(r.rate_var)
    /\ (r.up_to_var = Str("") \/ IsNumber(r.up_to_var))

NoDuplicateFiniteBounds ==
    \A i, j \in 1..Len(bracket_rows) :
        (i # j /\ IsNumber(bracket_rows[i].up_to_var)
               /\ IsNumber(bracket_rows[j].up_to_var))
            => bracket_rows[i].up_to_var # bracket_rows[j].up_to_var

\* all the validation of the active mode succeeds on the form as it stands
ValidationSucceeds ==
    /\ ValidNumbers
    /\ IF var_mode = Str("flat")
       THEN IsNumber(var_flat_rate)
       ELSE /\ \A i \in 1..Len(bracket_rows) : ValidRow(bracket_rows[i])
            /\ NoDuplicateFiniteBounds

\* C9: a calculator is invoked only after all the validation of the active
\* mode has succeeded; when validation fails (income or deductions not a number
\* or negative, flat rate not a number, a row with an empty or non-numeric
\* rate, a non-numeric bound, duplicate finite bounds) nothing is computed and
\* the five labels keep their values.
C9_ValidationBeforeComputation ==
    [][~ValidationSucceeds => (labels' = labels /\ lastCall'.fn = "none")]_vars

\* Calculate was refused for duplicate bounds while the labels show the
\* results of an earlier calculation
C9_Witness ==
    /\ lastCall.error = "Duplicate 'Up To' values found."
    /\ labels # NoLabels
    /\ ~ValidationSucceeds

Unbounded(c) == {i \in 1..Len(c) : c[i].up_to.k = "inf"}

BlankRows == {i \in 1..Len(bracket_rows) : bracket_rows[i].up_to_var = Str("")}

\* the rate of the row with the highest finite bound
TopFiniteRate ==
    LET top == CHOOSE i \in 1..Len(bracket_rows) :
                   \A j \in 1..Len(bracket_rows) :
                       bracket_rows[j].up_to_var.v <= bracket_rows[i].up_to_var.v
    IN bracket_rows[top].rate_var.v

\* C10: the schedule walked for a bracket list that passed the form's
\* validation holds exactly one unbounded bracket, the last one; when no row
\* is unbounded it carries the rate of the row with the highest finite bound.
C10_OneUnboundedTerminal ==
    (lastCall.fn = "progressive" /\ lastCall.result.status = "ok") =>
        LET c == lastCall.result.cleaned
        IN /\ Cardinality(Unbounded(c)) = 1
           /\ c[Len(c)].up_to.k = "inf"
           /\ (BlankRows = {} => c[Len(c)].rate = TopFiniteRate)

====
